---------------------------- MODULE Spec2Model ----------------------------
(***************************************************************************)
(* A model of the reverse-mode automatic differentiation engine of         *)
(* src/main.cpp: gradTensor nodes, the four backop variants, the four       *)
(* graph-building operators and the recursive backward traversal.          *)
(*                                                                         *)
(* The file holds the same design twice (shared_ptr handles, lines 1-172,  *)
(* and raw pointers, lines 174-353); both have the same operations with    *)
(* the same bodies, and the model follows the first, instantiated with     *)
(* T = double as in its main().                                            *)
(*                                                                         *)
(* Array elements are binary floating-point numbers: every arithmetic      *)
(* operation rounds its exact result to Precision significant bits, ties   *)
(* to even, as IEEE-754 arithmetic on double does with 53 bits.  The        *)
(* exponent is unbounded here (no overflow to infinity, no subnormals).    *)
(***************************************************************************)
EXTENDS Integers, Sequences, FiniteSets, TLC

\* Significand width of the modelled floating-point format.
Precision == 5

\* Number of operations (constructions, builder calls, backward calls,
\* setSource calls) explored after main's two leaves.
MaxSteps == 3

-----------------------------------------------------------------------------
(* Floating-point scalars: <<s, n, d>> with sign s in {1, -1}, n >= 0 and    *)
(* d >= 0 stands for s * n / d in lowest terms; d = 0 encodes the non-finite *)
(* values: <<s, 1, 0>> is s * infinity and <<1, 0, 0>> is NaN.  Zero is      *)
(* signed: <<1, 0, 1>> is +0 and <<-1, 0, 1>> is -0.                         *)

RECURSIVE GCD(_, _)
GCD(a, b) == IF b = 0 THEN a ELSE GCD(b, a % b)

RECURSIVE Pow2(_)
Pow2(k) == IF k = 0 THEN 1 ELSE 2 * Pow2(k - 1)

NaN == <<1, 0, 0>>
Inf(s) == <<s, 1, 0>>
Zero(s) == <<s, 0, 1>>
IsNaN(x) == x[2] = 0 /\ x[3] = 0
IsInf(x) == x[2] # 0 /\ x[3] = 0
IsZero(x) == x[2] = 0 /\ x[3] # 0

\* The floating-point number of the integer k (assumed representable).
FromInt(k) == IF k < 0 THEN <<-1, -k, 1>> ELSE <<1, k, 1>>

Reduce(s, n, d) == LET g == GCD(n, d) IN <<s, n \div g, d \div g>>

\* n * up / (d * dn) scaled by powers of two into [2^(Precision-1), 2^Precision)
RECURSIVE Scale(_, _, _, _)
Scale(n, d, up, dn) ==
    IF n * up >= Pow2(Precision) * d * dn THEN Scale(n, d, up, 2 * dn)
    ELSE IF n * up < Pow2(Precision - 1) * d * dn THEN Scale(n, d, 2 * up, dn)
    ELSE <<up, dn>>

\* Round the exact positive rational n / d to Precision significant bits,
\* ties to even, and give it the sign s.
RoundExact(s, n, d) ==
    LET sc == Scale(n, d, 1, 1)
        nn == n * sc[1]
        dd == d * sc[2]
        q  == nn \div dd
        r  == nn % dd
        m  == IF 2 * r > dd \/ (2 * r = dd /\ q % 2 = 1) THEN q + 1 ELSE q
    IN  Reduce(s, m * sc[2], sc[1])

\* The rounding of every arithmetic result.
Round(s, n, d) == IF n = 0 THEN Zero(s) ELSE RoundExact(s, n, d)

\* Unary minus flips the sign bit.
FNeg(x) == IF IsNaN(x) THEN NaN ELSE <<-x[1], x[2], x[3]>>

FMul(x, y) ==
    IF IsNaN(x) \/ IsNaN(y) THEN NaN
    ELSE IF (IsInf(x) /\ IsZero(y)) \/ (IsZero(x) /\ IsInf(y)) THEN NaN
    ELSE IF IsInf(x) \/ IsInf(y) THEN Inf(x[1] * y[1])
    ELSE Round(x[1] * y[1], x[2] * y[2], x[3] * y[3])

FDiv(x, y) ==
    IF IsNaN(x) \/ IsNaN(y) THEN NaN
    ELSE IF (IsInf(x) /\ IsInf(y)) \/ (IsZero(x) /\ IsZero(y)) THEN NaN
    ELSE IF IsInf(x) \/ IsZero(y) THEN Inf(x[1] * y[1])
    ELSE IF IsInf(y) THEN Zero(x[1] * y[1])
    ELSE Round(x[1] * y[1], x[2] * y[3], x[3] * y[2])

FAdd(x, y) ==
    IF IsNaN(x) \/ IsNaN(y) THEN NaN
    ELSE IF IsInf(x) /\ IsInf(y) THEN (IF x[1] = y[1] THEN x ELSE NaN)
    ELSE IF IsInf(x) THEN x
    ELSE IF IsInf(y) THEN y
    ELSE LET num == x[1] * x[2] * y[3] + y[1] * y[2] * x[3]
             den == x[3] * y[3]
         IN  IF num = 0
             THEN (IF IsZero(x) /\ IsZero(y) /\ x[1] = y[1] THEN x ELSE Zero(1))
             ELSE IF num < 0 THEN Round(-1, -num, den) ELSE Round(1, num, den)

FSub(x, y) == FAdd(x, FNeg(y))


-----------------------------------------------------------------------------
(* Arrays (xt::xarray<T>): a shape and the elements in row-major order.     *)
(* Shapes of rank 0 and 1 are modelled; a rank-0 array holds one element.   *)

RECURSIVE Product(_)
Product(shape) == IF shape = <<>> THEN 1 ELSE Head(shape) * Product(Tail(shape))

Array(shape, ints) == [shape |-> shape, elems |-> [i \in 1..Len(ints) |-> FromInt(ints[i])]]

\* xt::xarray<T>(): a rank-0 array holding one value-initialised element.
EmptyArray == [shape |-> <<>>, elems |-> <<Zero(1)>>]

zeros_like(d) == [shape |-> d.shape, elems |-> [i \in 1..Product(d.shape) |-> Zero(1)]]

ones_like(d) == [shape |-> d.shape, elems |-> [i \in 1..Product(d.shape) |-> FromInt(1)]]

\* Whether two shapes broadcast to a common shape (ranks 0 and 1).
Compatible(s, t) == s = t \/ s = <<>> \/ t = <<>> \/ s = <<1>> \/ t = <<1>>

BroadcastShape(s, t) == IF s = t \/ t = <<>> \/ (t = <<1>> /\ s # <<>>) THEN s ELSE t

\* Element i of an array seen through a broadcast.
At(a, i) == IF Len(a.elems) = 1 THEN a.elems[1] ELSE a.elems[i]

\* The shape of an elementwise expression over arrays a and b.
ResultShape(a, b) == BroadcastShape(a.shape, b.shape)

\* a + b, elementwise, for arrays of compatible shapes.
ArrAdd(a, b) ==
    [shape |-> ResultShape(a, b),
     elems |-> [i \in 1..Product(ResultShape(a, b)) |-> FAdd(At(a, i), At(b, i))]]

\* a - b, elementwise.
ArrSub(a, b) ==
    [shape |-> ResultShape(a, b),
     elems |-> [i \in 1..Product(ResultShape(a, b)) |-> FSub(At(a, i), At(b, i))]]

\* a * b, elementwise.
ArrMul(a, b) ==
    [shape |-> ResultShape(a, b),
     elems |-> [i \in 1..Product(ResultShape(a, b)) |-> FMul(At(a, i), At(b, i))]]

\* a / b, elementwise.
ArrDiv(a, b) ==
    [shape |-> ResultShape(a, b),
     elems |-> [i \in 1..Product(ResultShape(a, b)) |-> FDiv(At(a, i), At(b, i))]]

\* Unary minus of an array.
ArrNeg(a) == [shape |-> a.shape, elems |-> [i \in 1..Len(a.elems) |-> FNeg(a.elems[i])]]

\* scalar / array, as in 1.0 / arg2->getData().
ArrRecip(a) == [shape |-> a.shape, elems |-> [i \in 1..Len(a.elems) |-> FDiv(FromInt(1), a.elems[i])]]

-----------------------------------------------------------------------------
(* Tensors and backward operations.  A tensor is addressed by its index in  *)
(* the store `tensors` (its identity as a heap object); a backop holds the  *)
(* indices of its two operands.                                             *)

OpKinds == {"add", "sub", "mul", "div"}

\* source == nullptr
NoSource == [kind |-> "none", arg1 |-> 0, arg2 |-> 0]

\* addBackward / subBackward / mulBackward / divBackward(a1, a2)
BackOp(kind, a1, a2) == [kind |-> kind, arg1 |-> a1, arg2 |-> a2]

\* A constructor initialising grad from the data.
GradTensorCopiesData(d) == [data |-> d, grad |-> d, source |-> NoSource]

\* gradTensor(const xt::xarray<T>& d)
GradTensor(d) == [data |-> d, grad |-> zeros_like(d), source |-> NoSource]

\* gradTensor()
GradTensorDefault == [data |-> EmptyArray, grad |-> EmptyArray, source |-> NoSource]

\* The arrays main() builds its leaves from.
tensor == Array(<<3>>, <<1, 2, 3>>)
tensor1 == Array(<<3>>, <<4, 5, 6>>)
start == Array(<<3>>, <<1, 1, 1>>)

\* Arrays further leaves are built from: main's `start` and one of another shape,
\* holding a zero.
LeafArrays == {start, Array(<<2>>, <<7, 0>>)}

\* Seed gradients handed to backward(grad_current).
Seeds == {Array(<<3>>, <<1, 3, 5>>), Array(<<>>, <<3>>)}

-----------------------------------------------------------------------------
(* The state: the store of tensors in creation order, the log of backward   *)
(* calls made by the program, a record of the last operation (with the      *)
(* sequence of gradTensor::backward invocations it made), the store as it   *)
(* was before that operation, and the number of operations made so far.     *)

VARIABLES tensors, calls, last, prev, steps

vars == <<tensors, calls, last, prev, steps>>

Ids == 1..Len(tensors)

\* The record of an operation: op names it, kind/a/b are a builder's or
\* setSource's arguments (a is backward's target), seed is backward's argument,
\* outcome is "ok" or the exception thrown, trace lists the invocations
\* <<tensor, grad_current>> of gradTensor::backward in the order they were made.
Record(op, kind, a, b, seed, outcome, trace) ==
    [op |-> op, kind |-> kind, a |-> a, b |-> b, seed |-> seed,
     outcome |-> outcome, trace |-> trace]

-----------------------------------------------------------------------------
(* The backward traversal.  A traversal state st holds the store T, the     *)
(* trace of invocations and the outcome so far; an exception ends the       *)
(* traversal and leaves the store as it is at the throw.                    *)

RECURSIVE TensorBackward(_, _, _)
RECURSIVE OpBackward(_, _, _)

Throw(st, what) == [st EXCEPT !.outcome = what]

\* The next call of a sequence of calls: not made once an exception propagates.
Call(st, i, g) == IF st.outcome = "ok" THEN TensorBackward(st, i, g) ELSE st

\* addBackward::backward(accum_grad)
addBackward(st, op, g) ==
    Call(Call(st, op.arg1, g), op.arg2, g)

\* subBackward negating the gradient of the first operand.
subBackwardWrongSign(st, op, g) ==
    Call(Call(st, op.arg1, ArrNeg(g)), op.arg2, g)

\* subBackward::backward(accum_grad)
subBackward(st, op, g) ==
    Call(Call(st, op.arg1, g), op.arg2, ArrNeg(g))

\* mulBackward multiplying by the operand's own data.
mulBackwardOwnData(st, op, g) ==
    LET d1 == st.T[op.arg1].data
        d2 == st.T[op.arg2].data
        s1 == IF Compatible(d1.shape, g.shape)
              THEN Call(st, op.arg1, ArrMul(d1, g))
              ELSE Throw(st, "broadcast_error")
    IN  IF s1.outcome # "ok" THEN s1
        ELSE IF Compatible(d2.shape, g.shape)
             THEN Call(s1, op.arg2, ArrMul(d2, g))
             ELSE Throw(s1, "broadcast_error")

\* mulBackward::backward(accum_grad); evaluating an argument throws when the
\* shapes do not broadcast.
mulBackward(st, op, g) ==
    LET d1 == st.T[op.arg1].data
        d2 == st.T[op.arg2].data
        s1 == IF Compatible(d2.shape, g.shape)
              THEN Call(st, op.arg1, ArrMul(d2, g))
              ELSE Throw(st, "broadcast_error")
    IN  IF s1.outcome # "ok" THEN s1
        ELSE IF Compatible(d1.shape, g.shape)
             THEN Call(s1, op.arg2, ArrMul(d1, g))
             ELSE Throw(s1, "broadcast_error")

\* divBackward without the minus sign of the second operand's derivative.
divBackwardNoMinus(st, op, g) ==
    LET d1 == st.T[op.arg1].data
        d2 == st.T[op.arg2].data
        s1 == IF Compatible(d2.shape, g.shape)
              THEN Call(st, op.arg1, ArrMul(ArrRecip(d2), g))
              ELSE Throw(st, "broadcast_error")
    IN  IF s1.outcome # "ok" THEN s1
        ELSE IF Compatible(d1.shape, d2.shape)
                /\ Compatible(BroadcastShape(d1.shape, d2.shape), g.shape)
             THEN Call(s1, op.arg2, ArrMul(ArrDiv(d1, ArrMul(d2, d2)), g))
             ELSE Throw(s1, "broadcast_error")

\* divBackward::backward(accum_grad)
divBackward(st, op, g) ==
    LET d1 == st.T[op.arg1].data
        d2 == st.T[op.arg2].data
        s1 == IF Compatible(d2.shape, g.shape)
              THEN Call(st, op.arg1, ArrMul(ArrRecip(d2), g))
              ELSE Throw(st, "broadcast_error")
    IN  IF s1.outcome # "ok" THEN s1
        ELSE IF Compatible(d1.shape, d2.shape)
                /\ Compatible(BroadcastShape(d1.shape, d2.shape), g.shape)
             THEN Call(s1, op.arg2, ArrMul(ArrDiv(ArrNeg(d1), ArrMul(d2, d2)), g))
             ELSE Throw(s1, "broadcast_error")

\* source->backward(grad_current): the virtual call of backop::backward.
OpBackward(st, op, g) ==
    CASE op.kind = "add" -> addBackward(st, op, g)
      [] op.kind = "sub" -> subBackward(st, op, g)
      [] op.kind = "mul" -> mulBackward(st, op, g)
      [] op.kind = "div" -> divBackward(st, op, g)

\* gradTensor::backward forwarding the running total grad instead of
\* grad_current.
TensorBackwardTotal(st, i, g) ==
    LET entered == [st EXCEPT !.trace = Append(@, <<i, g>>)]
    IN  IF st.T[i].grad.shape # g.shape
        THEN Throw(entered, "invalid_argument")
        ELSE LET added == [entered EXCEPT !.T[i].grad = ArrAdd(@, g)]
             IN  IF added.T[i].source.kind # "none"
                 THEN OpBackward(added, added.T[i].source, added.T[i].grad)
                 ELSE added

\* gradTensor::backward checking the shape after the accumulation.
TensorBackwardLateCheck(st, i, g) ==
    LET entered == [st EXCEPT !.trace = Append(@, <<i, g>>)]
        added == IF Compatible(st.T[i].grad.shape, g.shape)
                    /\ BroadcastShape(st.T[i].grad.shape, g.shape) = st.T[i].grad.shape
                 THEN [entered EXCEPT !.T[i].grad = ArrAdd(@, g)]
                 ELSE entered
    IN  IF st.T[i].grad.shape # g.shape
        THEN Throw(added, "invalid_argument")
        ELSE IF added.T[i].source.kind # "none"
             THEN OpBackward(added, added.T[i].source, g)
             ELSE added

\* gradTensor::backward without the shape check: the accumulation broadcasts.
TensorBackwardUnchecked(st, i, g) ==
    LET entered == [st EXCEPT !.trace = Append(@, <<i, g>>)]
    IN  IF ~Compatible(st.T[i].grad.shape, g.shape)
        THEN Throw(entered, "broadcast_error")
        ELSE LET added == [entered EXCEPT !.T[i].grad = ArrAdd(@, g)]
             IN  IF added.T[i].source.kind # "none"
                 THEN OpBackward(added, added.T[i].source, g)
                 ELSE added

\* gradTensor::backward visiting every tensor once per call.
TensorBackwardMemo(st, i, g) ==
    LET entered == [st EXCEPT !.trace = Append(@, <<i, g>>)]
    IN  IF \E k \in 1..Len(st.trace) : st.trace[k][1] = i
        THEN st
        ELSE IF st.T[i].grad.shape # g.shape
        THEN Throw(entered, "invalid_argument")
        ELSE LET added == [entered EXCEPT !.T[i].grad = ArrAdd(@, g)]
             IN  IF added.T[i].source.kind # "none"
                 THEN OpBackward(added, added.T[i].source, g)
                 ELSE added

\* gradTensor::backward(grad_current)
TensorBackward(st, i, g) ==
    LET entered == [st EXCEPT !.trace = Append(@, <<i, g>>)]
    IN  IF st.T[i].grad.shape # g.shape
        THEN Throw(entered, "invalid_argument")
        ELSE LET added == [entered EXCEPT !.T[i].grad = ArrAdd(@, g)]
             IN  IF added.T[i].source.kind # "none"
                 THEN OpBackward(added, added.T[i].source, g)
                 ELSE added

\* Tensors reachable from tensor i through at most n operand references.
RECURSIVE Reach(_, _, _)
Reach(T, i, n) ==
    IF n = 0 \/ T[i].source.kind = "none" THEN {i}
    ELSE {i} \cup Reach(T, T[i].source.arg1, n - 1) \cup Reach(T, T[i].source.arg2, n - 1)

Reachable(T, i) == Reach(T, i, Len(T))

\* Whether the recursion from tensor i ends: no tensor reachable from i is
\* reachable from one of its own operands.
Acyclic(T, i) ==
    \A j \in Reachable(T, i) :
        IF T[j].source.kind = "none" THEN TRUE
        ELSE j \notin (Reachable(T, T[j].source.arg1) \cup Reachable(T, T[j].source.arg2))

-----------------------------------------------------------------------------
(* The operations of the program.                                           *)

NoTrace == <<>>

\* After main's  x = make_shared<gradTensor<double>>(tensor)  and
\* y = make_shared<gradTensor<double>>(tensor1).
Init ==
    /\ tensors = <<GradTensor(tensor), GradTensor(tensor1)>>
    /\ calls = <<>>
    /\ last = Record("main", "none", 0, 0, EmptyArray, "ok", NoTrace)
    /\ prev = <<>>
    /\ steps = 0

\* make_shared<gradTensor<T>>(d): a further leaf.
NewTensor(d) ==
    /\ steps < MaxSteps
    /\ tensors' = Append(tensors, GradTensor(d))
    /\ last' = Record("gradTensor", "none", Len(tensors) + 1, 0, EmptyArray, "ok", NoTrace)
    /\ prev' = tensors
    /\ steps' = steps + 1
    /\ UNCHANGED calls

\* make_shared<gradTensor<T>>(): the default constructor.
NewDefault ==
    /\ steps < MaxSteps
    /\ tensors' = Append(tensors, GradTensorDefault)
    /\ last' = Record("default", "none", Len(tensors) + 1, 0, EmptyArray, "ok", NoTrace)
    /\ prev' = tensors
    /\ steps' = steps + 1
    /\ UNCHANGED calls

\* gradTensor::setSource(op) applied to the tensor value t.
setSource(t, op) == [t EXCEPT !.source = op]

\* The forward value of a builder operator.
NewData(kind, d1, d2) ==
    CASE kind = "add" -> ArrAdd(d1, d2)
      [] kind = "sub" -> ArrSub(d1, d2)
      [] kind = "mul" -> ArrMul(d1, d2)
      [] kind = "div" -> ArrDiv(d1, d2)

\* A builder operator without the shape guard: operands that broadcast are
\* combined.
OperatorUnguarded(T, kind, first, second) ==
    IF ~Compatible(T[first].data.shape, T[second].data.shape)
    THEN [T |-> T, outcome |-> "broadcast_error"]
    ELSE LET newData == NewData(kind, T[first].data, T[second].data)
             ret == GradTensor(newData)
         IN  [T |-> Append(T, setSource(ret, BackOp(kind, first, second))),
              outcome |-> "ok"]

\* The body shared by operator+, operator-, operator* and operator/: the store
\* after the call and its outcome.
Operator(T, kind, first, second) ==
    IF T[first].data.shape # T[second].data.shape
    THEN [T |-> T, outcome |-> "invalid_argument"]
    ELSE LET newData == NewData(kind, T[first].data, T[second].data)
             ret == GradTensor(newData)
         IN  [T |-> Append(T, setSource(ret, BackOp(kind, first, second))),
              outcome |-> "ok"]

Build(kind, first, second) ==
    /\ steps < MaxSteps
    /\ LET res == Operator(tensors, kind, first, second)
       IN  /\ tensors' = res.T
           /\ last' = Record("operator", kind, first, second, EmptyArray, res.outcome, NoTrace)
    /\ prev' = tensors
    /\ steps' = steps + 1
    /\ UNCHANGED calls

\* operator+(first, second)
OperatorPlus(first, second) == Build("add", first, second)

\* operator-(first, second)
OperatorMinus(first, second) == Build("sub", first, second)

\* operator*(first, second)
OperatorTimes(first, second) == Build("mul", first, second)

\* operator/(first, second)
OperatorDivide(first, second) == Build("div", first, second)

\* root->backward(grad_current) called by the program, with grad_current an
\* array of its own (not a reference to a tensor's grad).  A call on a cyclic
\* graph, which only setSource can make, recurses without end and is not
\* explored.
Backward(root, grad_current) ==
    /\ steps < MaxSteps
    /\ Acyclic(tensors, root)
    /\ LET res == TensorBackward([T |-> tensors, trace |-> NoTrace, outcome |-> "ok"],
                                 root, grad_current)
       IN  /\ tensors' = res.T
           /\ calls' = Append(calls, [root |-> root, seed |-> grad_current,
                                      outcome |-> res.outcome])
           /\ last' = Record("backward", "none", root, 0, grad_current, res.outcome, res.trace)
    /\ prev' = tensors
    /\ steps' = steps + 1

\* root->backward(): seeded with ones_like(data).
BackwardOnes(root) == Backward(root, ones_like(tensors[root].data))

\* t->setSource(op) called by the program.
SetSource(t, op) ==
    /\ steps < MaxSteps
    /\ tensors' = [tensors EXCEPT ![t] = setSource(@, op)]
    /\ last' = Record("setSource", op.kind, t, 0, EmptyArray, "ok", NoTrace)
    /\ prev' = tensors
    /\ steps' = steps + 1
    /\ UNCHANGED calls

Next ==
    \/ \E d \in LeafArrays : NewTensor(d)
    \/ NewDefault
    \/ \E first, second \in Ids : OperatorPlus(first, second)
    \/ \E first, second \in Ids : OperatorMinus(first, second)
    \/ \E first, second \in Ids : OperatorTimes(first, second)
    \/ \E first, second \in Ids : OperatorDivide(first, second)
    \/ \E root \in Ids, g \in Seeds : Backward(root, g)
    \/ \E root \in Ids : BackwardOnes(root)

\* The program restricted to construction, the builder operators and backward.
Spec == Init /\ [][Next]_vars

\* The kinds of backop handed to setSource by the program.
SetKinds == {"add", "mul"}

\* setSource's arguments: nullptr or a backop over any two tensors.
Ops == {NoSource} \cup {BackOp(k, a1, a2) : k \in SetKinds, a1 \in Ids, a2 \in Ids}

NextSet ==
    \/ Next
    \/ \E t \in Ids, op \in Ops : SetSource(t, op)

\* The program using every public operation, setSource included.
SpecSet == Init /\ [][NextSet]_vars

-----------------------------------------------------------------------------
(* Vocabulary of the properties.                                            *)

IsLeaf(T, i) == T[i].source.kind = "none"

AllZeroGrad(T) == \A i \in 1..Len(T) : T[i].grad = zeros_like(T[i].data)

\* 2 * S, elementwise.
Twice(S) == ArrMul(Array(<<>>, <<2>>), S)

\* The last operation was a call root->backward(seed) by the program.
BackwardCalled == last.op = "backward"

BackwardDone == BackwardCalled /\ last.outcome = "ok"

\* The last operation was a call of a builder operator.
OperatorCalled == last.op = "operator"

\* The gradients the specification's table (section 4.2) assigns to the first
\* and the second operand of an operation of the given kind over operands
\* with data A and B, for the incoming gradient g.
TableGa(kind, A, B, g) ==
    CASE kind = "add" -> g
      [] kind = "sub" -> g
      [] kind = "mul" -> ArrMul(B, g)
      [] kind = "div" -> ArrMul(ArrRecip(B), g)

TableGb(kind, A, B, g) ==
    CASE kind = "add" -> g
      [] kind = "sub" -> ArrNeg(g)
      [] kind = "mul" -> ArrMul(A, g)
      [] kind = "div" -> ArrMul(ArrDiv(ArrNeg(A), ArrMul(B, B)), g)

-----------------------------------------------------------------------------
\* C1: gradients accumulate across backward calls and are never reset.  Every
\* successful call root->backward(g) leaves root's grad equal to its previous
\* grad plus g, and the producing op is handed g itself, not the running
\* total: the first operand is invoked with the table's gradient for g.  For
\* distinct leaves x, y and z = x + y, when the only backward calls made are
\* two successful calls z->backward(S), x.grad, y.grad and z.grad are 2*S.
C1_Accumulates ==
    /\ BackwardDone =>
         LET r == last.a
             op == prev[r].source
         IN  /\ tensors[r].grad = ArrAdd(prev[r].grad, last.seed)
             /\ op.kind # "none" =>
                  last.trace[2] = <<op.arg1, TableGa(op.kind, prev[op.arg1].data,
                                                     prev[op.arg2].data, last.seed)>>
    /\ \A z \in Ids :
         LET op == tensors[z].source
         IN  ( /\ op.kind = "add"
               /\ op.arg1 # op.arg2
               /\ IsLeaf(tensors, op.arg1)
               /\ IsLeaf(tensors, op.arg2)
               /\ Len(calls) = 2
               /\ calls[1] = calls[2]
               /\ calls[1].root = z
               /\ calls[1].outcome = "ok" )
             => /\ tensors[op.arg1].grad = Twice(calls[1].seed)
                /\ tensors[op.arg2].grad = Twice(calls[1].seed)
                /\ tensors[z].grad = Twice(calls[1].seed)

\* C1's case: z = x + y over distinct leaves, after z->backward(S) was called
\* twice with the seed <<1, 3, 5>> and nothing else.
C1_Witness ==
    \E z \in Ids :
        /\ tensors[z].source.kind = "add"
        /\ tensors[z].source.arg1 # tensors[z].source.arg2
        /\ IsLeaf(tensors, tensors[z].source.arg1)
        /\ IsLeaf(tensors, tensors[z].source.arg2)
        /\ Len(calls) = 2
        /\ calls[1] = calls[2]
        /\ calls[1] = [root |-> z, seed |-> Array(<<3>>, <<1, 3, 5>>), outcome |-> "ok"]
        /\ tensors[z].grad = Array(<<3>>, <<2, 6, 10>>)

\* C2: a builder operator called on operands of unequal data shapes fails with
\* the shape-mismatch exception and leaves the store exactly as it was: no new
\* tensor, no BackwardOp, both operands' data, grad and source unchanged.
C2_MismatchGuard ==
    OperatorCalled =>
        ( prev[last.a].data.shape # prev[last.b].data.shape
          => /\ last.outcome = "invalid_argument"
             /\ tensors = prev )

\* C2's case: operator/ was called on operands of shapes [3] and [2].
C2_Witness ==
    /\ OperatorCalled
    /\ last.kind = "div"
    /\ prev[last.a].data.shape = <<3>>
    /\ prev[last.b].data.shape = <<2>>
    /\ last.outcome = "invalid_argument"
    /\ AllZeroGrad(tensors)

\* C3: a backward call that fails has mutated nothing.  On every graph made
\* by leaf construction and the builder operators, a call whose seed's shape
\* differs from the root's grad shape fails with the shape mismatch at the
\* root, having invoked nothing else, and leaves every grad unchanged; a call
\* whose seed's shape matches succeeds (nothing is raised part-way).
C3_BackwardFailsClean ==
    BackwardCalled =>
        /\ prev[last.a].grad.shape # last.seed.shape
             => /\ last.outcome = "invalid_argument"
                /\ last.trace = <<<<last.a, last.seed>>>>
        /\ prev[last.a].grad.shape = last.seed.shape => last.outcome = "ok"
        /\ last.outcome # "ok" => tensors = prev

\* C3's case: a non-leaf root whose gradients are already non-zero is called
\* with a seed of another shape.
C3_Witness ==
    /\ BackwardCalled
    /\ ~IsLeaf(prev, last.a)
    /\ ~AllZeroGrad(prev)
    /\ prev[last.a].grad # zeros_like(prev[last.a].data)
    /\ prev[last.a].grad.shape = <<3>>
    /\ last.seed.shape = <<>>
    /\ last.outcome = "invalid_argument"

-----------------------------------------------------------------------------
(* Paths of the operand graph.  A path is the sequence of operand slots     *)
(* (1 for arg1, 2 for arg2) followed from a node; x op x has two paths to x. *)

PrefixAll(slot, paths) == [j \in 1..Len(paths) |-> <<slot>> \o paths[j]]

\* The paths from r to i, the paths through arg1 before those through arg2.
RECURSIVE PathsTo(_, _, _)
PathsTo(T, r, i) ==
    LET here == IF r = i THEN <<<<>>>> ELSE <<>>
    IN  IF IsLeaf(T, r) THEN here
        ELSE here \o PrefixAll(1, PathsTo(T, T[r].source.arg1, i))
                  \o PrefixAll(2, PathsTo(T, T[r].source.arg2, i))

\* The seed g multiplied by the local derivatives of the table along a path
\* that starts at node r.
RECURSIVE Along(_, _, _, _)
Along(T, r, path, g) ==
    IF path = <<>> THEN g
    ELSE LET op == T[r].source
             A == T[op.arg1].data
             B == T[op.arg2].data
         IN  IF Head(path) = 1
             THEN Along(T, op.arg1, Tail(path), TableGa(op.kind, A, B, g))
             ELSE Along(T, op.arg2, Tail(path), TableGb(op.kind, A, B, g))

\* acc + the contributions of paths[k..], in order.
RECURSIVE SumFrom(_, _, _, _, _, _)
SumFrom(T, r, paths, k, g, acc) ==
    IF k > Len(paths) THEN acc
    ELSE SumFrom(T, r, paths, k + 1, g, ArrAdd(acc, Along(T, r, paths[k], g)))

\* The sum over the paths from r to i of the seed times the local derivatives.
PathSum(T, r, i, g) == SumFrom(T, r, PathsTo(T, r, i), 1, g, zeros_like(T[i].data))

\* C4: shared nodes sum the contributions of all their paths.  After one
\* successful backward from a root with seed S on all-zero gradients, every
\* node's grad is the sum over the paths from the root to it of S times the
\* local derivatives along the path; for a leaf x = tensor(A) and z = x * x,
\* z->backward() gives x.grad = 2*A; for a = [1,2,3], b = [4,5,6], c = a + b,
\* d = c * a, d->backward([1,1,1]) gives a.grad = [6,9,12], b.grad = [1,2,3].
C4_PathSums ==
    (BackwardDone /\ AllZeroGrad(prev)) =>
        LET r == last.a
            op == prev[r].source
        IN  /\ \A i \in Ids : tensors[i].grad = PathSum(prev, r, i, last.seed)
            /\ ( /\ op.kind = "mul"
                 /\ op.arg1 = op.arg2
                 /\ IsLeaf(prev, op.arg1)
                 /\ last.seed = ones_like(prev[r].data) )
               => tensors[op.arg1].grad = Twice(prev[op.arg1].data)
            /\ ( /\ op.kind = "mul"
                 /\ prev[op.arg1].source.kind = "add"
                 /\ prev[op.arg1].source.arg1 = op.arg2
                 /\ IsLeaf(prev, op.arg2)
                 /\ IsLeaf(prev, prev[op.arg1].source.arg2)
                 /\ prev[op.arg2].data = tensor
                 /\ prev[prev[op.arg1].source.arg2].data = tensor1
                 /\ last.seed = start )
               => /\ tensors[op.arg2].grad = Array(<<3>>, <<6, 9, 12>>)
                  /\ tensors[prev[op.arg1].source.arg2].grad = Array(<<3>>, <<1, 2, 3>>)

\* C4's case: d = (a + b) * a over main's leaves, after d->backward([1,1,1])
\* on zero gradients.
C4_Witness ==
    /\ BackwardDone
    /\ AllZeroGrad(prev)
    /\ Len(tensors) = 4
    /\ last.a = 4
    /\ last.seed = start
    /\ tensors[3].source = BackOp("add", 1, 2)
    /\ tensors[4].source = BackOp("mul", 3, 1)
    /\ Len(PathsTo(prev, 4, 1)) = 2
    /\ tensors[1].grad = Array(<<3>>, <<6, 9, 12>>)

\* The number of invocations of gradTensor::backward a call on node i makes.
RECURSIVE Visits(_, _)
Visits(T, i) ==
    IF IsLeaf(T, i) THEN 1
    ELSE 1 + Visits(T, T[i].source.arg1) + Visits(T, T[i].source.arg2)

\* C5: the op of z = a op b invokes a.backward(g_a) and then, after a's own
\* recursion, b.backward(g_b), with (g_a, g_b) = (g, g) for Add, (g, -g) for
\* Sub and (b.data * g, a.data * g) for Mul; for distinct leaves a, b with
\* zero gradients the grads after z->backward(S) are (0 + g_a, 0 + g_b), so
\* the order of the operands in the builder call is kept.
C5_OperandGradients ==
    (BackwardDone /\ prev[last.a].source.kind \in {"add", "sub", "mul"}) =>
        LET op == prev[last.a].source
            a == op.arg1
            b == op.arg2
            S == last.seed
            ga == CASE op.kind = "add" -> S
                    [] op.kind = "sub" -> S
                    [] op.kind = "mul" -> ArrMul(prev[b].data, S)
            gb == CASE op.kind = "add" -> S
                    [] op.kind = "sub" -> ArrNeg(S)
                    [] op.kind = "mul" -> ArrMul(prev[a].data, S)
        IN  /\ last.trace[2] = <<a, ga>>
            /\ last.trace[2 + Visits(prev, a)] = <<b, gb>>
            /\ Len(last.trace) = 1 + Visits(prev, a) + Visits(prev, b)
            /\ (a # b /\ IsLeaf(prev, a) /\ IsLeaf(prev, b) /\ AllZeroGrad(prev))
               => /\ tensors[a].grad = ArrAdd(zeros_like(ga), ga)
                  /\ tensors[b].grad = ArrAdd(zeros_like(gb), gb)

\* C5's case: z = y - x (the operands in the order 2, 1) over main's leaves,
\* after z->backward(<<1, 3, 5>>): y.grad = S and x.grad = -S.
C5_Witness ==
    /\ BackwardDone
    /\ AllZeroGrad(prev)
    /\ prev[last.a].source = BackOp("sub", 2, 1)
    /\ last.seed = Array(<<3>>, <<1, 3, 5>>)
    /\ tensors[2].grad = Array(<<3>>, <<1, 3, 5>>)
    /\ tensors[1].grad = Array(<<3>>, <<-1, -3, -5>>)

-----------------------------------------------------------------------------
\* The case of the quotient rule: the last operation was a successful
\* z->backward(S) on zero gradients, for z = x / y over distinct leaves.
QuotientCase ==
    /\ BackwardDone
    /\ AllZeroGrad(prev)
    /\ prev[last.a].source.kind = "div"
    /\ prev[last.a].source.arg1 # prev[last.a].source.arg2
    /\ IsLeaf(prev, prev[last.a].source.arg1)
    /\ IsLeaf(prev, prev[last.a].source.arg2)

IsFinite(x) == x[3] # 0

Abs(k) == IF k < 0 THEN -k ELSE k

\* Whether the finite number x is the exact rational s * n / d up to a
\* relative error of 4 * 2^(-Precision).
Near(x, s, n, d) ==
    IF n = 0 THEN IsZero(x)
    ELSE /\ x[1] = s
         /\ Abs(x[2] * d - n * x[3]) * Pow2(Precision) <= 4 * n * x[3]

\* C6 as stated: after z->backward(S) for z = x / y over leaves x = tensor(A),
\* y = tensor(B) with zero gradients, x.grad is the quotient S / B and y.grad
\* is -S * A / (B * B), elementwise.
C6_QuotientAsStated ==
    QuotientCase =>
        LET x == prev[last.a].source.arg1
            y == prev[last.a].source.arg2
            A == prev[x].data
            B == prev[y].data
            S == last.seed
        IN  /\ tensors[x].grad = ArrDiv(S, B)
            /\ tensors[y].grad = ArrDiv(ArrMul(ArrNeg(S), A), ArrMul(B, B))

\* C6 amended: x.grad is 0 + (1.0 / B) * S and y.grad is 0 + (-A / (B * B)) * S,
\* every operation rounded; where B is not zero these are S / B and
\* -S * A / (B * B) up to a relative error of 4 * 2^(-Precision), not
\* necessarily bit for bit.
C6_QuotientRounded ==
    QuotientCase =>
        LET x == prev[last.a].source.arg1
            y == prev[last.a].source.arg2
            A == prev[x].data
            B == prev[y].data
            S == last.seed
            gx == ArrMul(ArrRecip(B), S)
            gy == ArrMul(ArrDiv(ArrNeg(A), ArrMul(B, B)), S)
        IN  /\ tensors[x].grad = ArrAdd(zeros_like(gx), gx)
            /\ tensors[y].grad = ArrAdd(zeros_like(gy), gy)
            /\ \A i \in 1..Len(B.elems) :
                 LET a == A.elems[i]
                     b == B.elems[i]
                     g == S.elems[i]
                 IN  ~IsZero(b) =>
                       /\ IsFinite(tensors[x].grad.elems[i])
                       /\ IsFinite(tensors[y].grad.elems[i])
                       /\ Near(tensors[x].grad.elems[i],
                               g[1] * b[1], g[2] * b[3], g[3] * b[2])
                       /\ Near(tensors[y].grad.elems[i],
                               -(g[1] * a[1]), g[2] * a[2] * b[3] * b[3],
                               g[3] * a[3] * b[2] * b[2])

\* C6's case: z = x / y over main's leaves [1,2,3] and [4,5,6], after
\* z->backward(<<1, 3, 5>>); the second element of x.grad, (1.0 / 5) * 3,
\* is not the quotient 3 / 5.
C6_Witness ==
    /\ QuotientCase
    /\ prev[last.a].source = BackOp("div", 1, 2)
    /\ last.seed = Array(<<3>>, <<1, 3, 5>>)
    /\ tensors[1].grad.elems[2] = FMul(FDiv(FromInt(1), FromInt(5)), FromInt(3))
    /\ tensors[1].grad.elems[2] # FDiv(FromInt(3), FromInt(5))

\* C7: a tensor's producing op is set at most once, by the builder that made
\* the tensor: no operation changes the source of an existing tensor (a leaf's
\* stays null, a non-leaf's stays the op its builder attached), and a further
\* setSource is rejected rather than replacing it.
C7_SourceSetOnce ==
    \A i \in 1..Len(prev) : i \in Ids /\ tensors[i].source = prev[i].source

\* C8: grad is the only mutable field and only backward mutates it.  A
\* successful builder call leaves every existing tensor as it was and appends
\* one tensor with a zero grad; a backward call changes no data and no source,
\* and changes the grad only of tensors reachable from its root.
C8_Frame ==
    /\ (OperatorCalled /\ last.outcome = "ok") =>
         /\ Len(tensors) = Len(prev) + 1
         /\ \A i \in 1..Len(prev) : tensors[i] = prev[i]
         /\ tensors[Len(tensors)].grad = zeros_like(tensors[Len(tensors)].data)
         /\ tensors[Len(tensors)].source = BackOp(last.kind, last.a, last.b)
    /\ BackwardCalled =>
         /\ Len(tensors) = Len(prev)
         /\ \A i \in Ids :
              /\ tensors[i].data = prev[i].data
              /\ tensors[i].source = prev[i].source
              /\ i \notin Reachable(prev, last.a) => tensors[i].grad = prev[i].grad

\* C8's case: a builder operator is called on operands whose gradients are
\* not zero, after a backward call that left another tensor's grad untouched.
C8_Witness ==
    /\ OperatorCalled
    /\ last.outcome = "ok"
    /\ prev[last.a].grad # zeros_like(prev[last.a].data)
    /\ prev[last.b].grad # zeros_like(prev[last.b].data)
    /\ \E i \in 1..Len(prev) : prev[i].grad = zeros_like(prev[i].data)
    /\ Len(calls) = 1

\* C9: every tensor's grad has the shape of its data, after any sequence of
\* constructions (the default constructor included), builder calls and
\* backward calls, successful or not.
C9_GradShape ==
    \A i \in Ids :
        /\ tensors[i].grad.shape = tensors[i].data.shape
        /\ Len(tensors[i].grad.elems) = Product(tensors[i].data.shape)
        /\ Len(tensors[i].data.elems) = Product(tensors[i].data.shape)

\* C9's case: a tensor made by the default constructor is the operand of a
\* built tensor, and a backward call on that tensor has changed its grad.
C9_Witness ==
    \E i, z \in Ids :
        /\ tensors[i] = [GradTensorDefault EXCEPT !.grad = tensors[i].grad]
        /\ tensors[i].grad # EmptyArray
        /\ tensors[i].grad.shape = <<>>
        /\ tensors[z].source.kind # "none"
        /\ tensors[z].source.arg1 = i
        /\ BackwardDone
        /\ last.a = z

\* The number of paths from r to i.
RECURSIVE NumPaths(_, _, _)
NumPaths(T, r, i) ==
    (IF r = i THEN 1 ELSE 0)
    + (IF IsLeaf(T, r) THEN 0
       ELSE NumPaths(T, T[r].source.arg1, i) + NumPaths(T, T[r].source.arg2, i))

\* The number of invocations of backward on tensor i in a trace.
Invocations(trace, i) == Cardinality({k \in 1..Len(trace) : trace[k][1] = i})

\* n when r is the top of n diamonds x + x stacked on the leaf x0, else -1.
RECURSIVE Diamonds(_, _, _)
Diamonds(T, r, x0) ==
    IF r = x0 THEN (IF IsLeaf(T, r) THEN 0 ELSE -1)
    ELSE IF T[r].source.kind = "add" /\ T[r].source.arg1 = T[r].source.arg2
         THEN LET below == Diamonds(T, T[r].source.arg1, x0)
              IN  IF below < 0 THEN -1 ELSE below + 1
         ELSE -1

\* Pow2(n) * S, elementwise.
Times(k, S) == ArrMul(Array(<<>>, <<k>>), S)

=============================================================================
